---- MODULE Spec2Model ----
(***************************************************************************)
(* Model of the alina-ui chat page (src/app/page.tsx, ChatPage): the React *)
(* state of the page, the browser's localStorage, the /chat and            *)
(* /archive_chat requests in flight, and one action per event handler or   *)
(* promise continuation.  Every action ends with the render that follows   *)
(* the state change and the persistence effect of that render.             *)
(*                                                                         *)
(* Strings are sequences of character tokens, so that trim(), template     *)
(* literals, JSON.stringify and JSON.parse are computed and not assumed.   *)
(* A nullable value is a sequence of length 0 (null) or 1 (the value).     *)
(***************************************************************************)
EXTENDS Integers, Sequences, FiniteSets, Bags, TLC

\* ---------------------------------------------------------------- bounds
\* Submissions are accepted by the model while the transcript is shorter.
MaxMessages == 3
\* Requests (/chat and /archive_chat) that may be pending at the same time.
MaxPending == 2
\* The longest task list the backend answers GET /tasks with.
MaxTasks == 3

\* ------------------------------------------------------- nullable values
None == <<>>
Some(x) == <<x>>

\* ---------------------------------------------------------------- strings
IsSpace(c) == c \in {" ", "\n", "\t"}

RECURSIVE TrimStart(_)
TrimStart(s) ==
    IF s # <<>> /\ IsSpace(Head(s)) THEN TrimStart(Tail(s)) ELSE s

RECURSIVE TrimEnd(_)
TrimEnd(s) ==
    IF s # <<>> /\ IsSpace(s[Len(s)]) THEN TrimEnd(SubSeq(s, 1, Len(s) - 1)) ELSE s

\* String.prototype.trim
Trim(s) == TrimEnd(TrimStart(s))

\* A JavaScript value used as a condition: null and '' are falsy.
Truthy(opt) == opt # None /\ opt[1] # <<>>

\* ------------------------------------------------------------ the inputs
\* The identities that own keys of localStorage: A uses the page, B is an
\* earlier visitor whose data is still stored.
NameA == <<"A">>
NameB == <<"B">>
Names == {NameA, NameB}

\* Display names as typed in the name prompt.
RawNames == {<<" ">>, <<" ", "A", " ">>}

\* Texts as typed in the chat input.
Inputs == {<<" ", "\n">>, <<" ", "h">>}

\* Session ids: s1 is left in storage by an earlier visit, s2 is handed
\* out by the backend during this one.
SessionIds == {<<"s1">>, <<"s2">>}

\* ------------------------------------------------------------- messages
Message(text, sender) == [text |-> text, sender |-> sender]

WelcomeBackGreeting(name) ==
    Message(<<"Welcome back, ">> \o name \o <<". How can I help you today?">>, "alina")

DefaultGreeting == Message(<<"Hello! How can I help you today?">>, "alina")

NameGreeting(name) ==
    Message(<<"Hello ">> \o name \o <<"! How can I help you today?">>, "alina")

NewChatGreeting(userNameOpt) ==
    Message(<<"Hello again, ">>
            \o (IF Truthy(userNameOpt) THEN userNameOpt[1] ELSE <<"friend">>)
            \o <<". Let's begin a new conversation.">>, "alina")

FallbackMessage == Message(<<"Sorry, I encountered an error.">>, "alina")

\* ------------------------------------------------------------------ JSON
\* A JSON text is a sequence of tokens: the punctuation below, and between
\* two quotes the characters of a string.
Q == "\""

StringifyString(text) == <<Q>> \o text \o <<Q>>

\* JSON.stringify of one Message: {"text":"...","sender":"..."}
StringifyMessage(m) ==
    <<"{">> \o StringifyString(<<"text">>) \o <<":">> \o StringifyString(m.text)
    \o <<",">> \o StringifyString(<<"sender">>) \o <<":">> \o StringifyString(<<m.sender>>)
    \o <<"}">>

RECURSIVE StringifyElements(_)
StringifyElements(msgs) ==
    IF msgs = <<>> THEN <<>>
    ELSE IF Len(msgs) = 1 THEN StringifyMessage(msgs[1])
    ELSE StringifyMessage(Head(msgs)) \o <<",">> \o StringifyElements(Tail(msgs))

\* Variant: the elements are written without the enclosing brackets' comma
\* handling, every element followed by a comma.
RECURSIVE TrailingCommaElements(_)
TrailingCommaElements(msgs) ==
    IF msgs = <<>> THEN <<>>
    ELSE StringifyMessage(Head(msgs)) \o <<",">> \o TrailingCommaElements(Tail(msgs))

JSONstringify_trailingComma(msgs) == <<"[">> \o TrailingCommaElements(msgs) \o <<"]">>

\* JSON.stringify(messages)
JSONstringify(msgs) == <<"[">> \o StringifyElements(msgs) \o <<"]">>

At(s, i) == IF i \in 1..Len(s) THEN s[i] ELSE "<eof>"

\* The n tokens from token i on (fewer at the end of the text).
Slice(s, i, n) == SubSeq(s, i, IF i + n - 1 <= Len(s) THEN i + n - 1 ELSE Len(s))

\* The index of the first quote at or after token i, 0 if there is none.
RECURSIVE FindQuote(_, _)
FindQuote(s, i) ==
    IF i > Len(s) THEN 0 ELSE IF s[i] = Q THEN i ELSE FindQuote(s, i + 1)

NoParse == [ok |-> FALSE, val |-> <<>>, next |-> 0]

MessageOpen == <<"{", Q, "text", Q, ":", Q>>
MessageMiddle == <<Q, ",", Q, "sender", Q, ":", Q>>
MessageClose == <<Q, "}">>

\* An object {"text": string, "sender": string} that starts at token i and
\* whose text ends at the quote j.
ParseMessageAt(s, i, j) ==
    IF /\ Slice(s, i, Len(MessageOpen)) = MessageOpen
       /\ j # 0
       /\ Slice(s, j, Len(MessageMiddle)) = MessageMiddle
       /\ At(s, j + Len(MessageMiddle)) \notin {Q, "<eof>"}
       /\ Slice(s, j + Len(MessageMiddle) + 1, Len(MessageClose)) = MessageClose
    THEN [ok |-> TRUE,
          val |-> <<Message(SubSeq(s, i + Len(MessageOpen), j - 1), s[j + Len(MessageMiddle)])>>,
          next |-> j + Len(MessageMiddle) + 1 + Len(MessageClose)]
    ELSE NoParse

ParseMessage(s, i) ==
    CHOOSE m \in { ParseMessageAt(s, i, j) : j \in {FindQuote(s, i + Len(MessageOpen))} } : TRUE

\* The elements of an array, from token i, up to and including the "]".
RECURSIVE ParseElements(_, _, _)
ParseElements(s, i, acc) ==
    CHOOSE res \in
      { IF ~m.ok THEN NoParse
        ELSE IF At(s, m.next) = "," THEN ParseElements(s, m.next + 1, acc \o m.val)
        ELSE IF At(s, m.next) = "]" THEN [ok |-> TRUE, val |-> acc \o m.val, next |-> m.next + 1]
        ELSE NoParse : m \in {ParseMessage(s, i)} } : TRUE

\* A text that is one string literal.
IsStringLiteral(s) == Len(s) >= 2 /\ s[1] = Q /\ FindQuote(s, 2) = Len(s)

\* JSON.parse on the texts of StoredTexts: kind "array" is an array of
\* Message (val), kind "other" a JSON value that is not an array (null, {},
\* a string), kind "throw" a SyntaxError.
JSONparse(s) ==
    IF s = <<"null">> \/ s = <<"{", "}">> \/ IsStringLiteral(s)
    THEN [kind |-> "other", val |-> <<>>]
    ELSE IF s = <<"[", "]">> THEN [kind |-> "array", val |-> <<>>]
    ELSE IF At(s, 1) = "["
    THEN CHOOSE res \in
           { IF arr.ok /\ arr.next = Len(s) + 1
             THEN [kind |-> "array", val |-> arr.val]
             ELSE [kind |-> "throw", val |-> <<>>] : arr \in {ParseElements(s, 2, <<>>)} } : TRUE
    ELSE [kind |-> "throw", val |-> <<>>]

\* ---------------------------------------------------------- localStorage
\* localStorage is a record of its three families of keys:
\*   name         'alina-user-name'
\*   history[n]   `alina-chat-history-${n}`
\*   session[n]   `alina-session-id-${n}`
\* getItem of a missing key is null (None); removeItem stores None.

\* Texts found under a chat-history key when the page loads, written out
\* token by token, each with the transcript it denotes.
StoredSamples ==
    { [text |-> <<"[", "{", Q, "text", Q, ":", Q, "Hello again, ", "A",
                  ". Let's begin a new conversation.", Q, ",",
                  Q, "sender", Q, ":", Q, "alina", Q, "}", "]">>,
       transcript |-> <<[text |-> <<"Hello again, ", "A", ". Let's begin a new conversation.">>,
                         sender |-> "alina"]>>],
      [text |-> <<"[", "{", Q, "text", Q, ":", Q, "Hello again, ", "A",
                  ". Let's begin a new conversation.", Q, ",",
                  Q, "sender", Q, ":", Q, "alina", Q, "}", ",",
                  "{", Q, "text", Q, ":", Q, " ", "h", Q, ",",
                  Q, "sender", Q, ":", Q, "user", Q, "}", ",",
                  "{", Q, "text", Q, ":", Q, "r", Q, ",",
                  Q, "sender", Q, ":", Q, "alina", Q, "}", "]">>,
       transcript |-> <<[text |-> <<"Hello again, ", "A", ". Let's begin a new conversation.">>,
                         sender |-> "alina"],
                        [text |-> <<" ", "h">>, sender |-> "user"],
                        [text |-> <<"r">>, sender |-> "alina"]>>] }

WellFormedTexts == { s.text : s \in StoredSamples }

\* Texts that are not JSON: truncated in the middle of an object.
UnparsableTexts ==
    { <<"[", "{">>,
      <<"[", "{", Q, "text", Q, ":", Q, "h", Q, ",", Q, "sender", Q, ":", Q, "user", Q, "}">> }

NonArrayTexts == { <<"null">>, <<"{", "}">>, StringifyString(<<"h">>) }

StoredTexts == WellFormedTexts \cup UnparsableTexts \cup NonArrayTexts

Storage(n, ha, hb, sa) ==
    [name |-> n,
     history |-> [k \in Names |-> IF k = NameA THEN ha ELSE hb],
     session |-> [k \in Names |-> IF k = NameA THEN sa ELSE None]]

\* What localStorage may hold when the page is first loaded.  Under the
\* stored name A: no transcript, or any of the texts above, with or without
\* a session id.  Under no stored name: nothing, or what earlier visits of
\* A and B have left.
InitStorages ==
    { Storage(Some(NameA), None, None, None),
      Storage(Some(NameA), Some(<<"[", "{">>), None, Some(<<"s1">>)) }
    \cup { Storage(Some(NameA), Some(t), None, Some(<<"s1">>)) : t \in WellFormedTexts }
    \cup { Storage(Some(NameA), Some(t), None, None) : t \in UnparsableTexts \cup NonArrayTexts }
    \cup
    { Storage(None, None, None, None),
      Storage(None, Some(<<"[", "]">>), Some(JSONstringify(<<NameGreeting(NameB)>>)),
              Some(<<"s1">>)) }

\* ------------------------------------------------------------- responses
\* The outcome of a fetch of /chat followed by response.json().
\*   net     "reject": fetch rejects; "ok": a response arrived
\*   status  the HTTP status of the response
\*   json    "invalid": response.json() rejects; "null": the body is the
\*           JSON value null; "object": the body is a JSON object
\*   content, session_id   the fields of that object, None when absent
NoResp == [net |-> "none", status |-> 0, json |-> "none",
           content |-> None, session_id |-> None]

Resp(net, status, json, content, session_id) ==
    [net |-> net, status |-> status, json |-> json,
     content |-> content, session_id |-> session_id]

ChatResponses ==
    { Resp("reject", 0, "none", None, None),
      Resp("ok", 200, "invalid", None, None),
      Resp("ok", 200, "null", None, None),
      Resp("ok", 200, "object", None, Some(<<"s2">>)),
      Resp("ok", 500, "object", None, None) }
    \cup { Resp("ok", 200, "object", Some(<<"r">>), sid) :
             sid \in {None, Some(<<"s2">>)} }

ArchiveOutcomes == {"ok", "non2xx", "reject"}

\* ------------------------------------------------------------ task log
\* The task log page exists in three revisions:
\*   "table"       src/app/tasks/page.tsx, first definition (lines 1-122)
\*   "responsive"  src/unnamed/part_001 ("Version 2.0: Mobile Responsive")
\*   "bare"        src/app/tasks/page.tsx, second definition (lines 123-234)
\* In the first two getTasks returns a FetchResult {tasks, error}; in the
\* third it returns a bare task list.
FetchResultRevisions == {"table", "responsive"}
Revisions == FetchResultRevisions \cup {"bare"}

\* process.env.NEXT_PUBLIC_API_URL when it is configured.
ApiUrl == <<"http://api">>

\* Tasks as the backend sends them (type Task); completed_at is not rendered.
TaskSamples ==
    { [id |-> 1, type |-> "search", status |-> "completed",
       parameters |-> [query |-> Some("q")], created_at |-> "2025-01-01T10:00:00"],
      [id |-> 2, type |-> "summary", status |-> "failed",
       parameters |-> [query |-> None], created_at |-> "2025-01-02T11:30:00"],
      [id |-> 3, type |-> "search", status |-> "queued",
       parameters |-> [query |-> Some("")], created_at |-> ""] }

TaskLists == UNION { [1..k -> TaskSamples] : k \in 0..MaxTasks }

\* The value response.json() resolves to: an array of tasks, or another
\* JSON value (null, an object).
JsonArray(list) == [kind |-> "array", val |-> list]
JsonNull == [kind |-> "null", val |-> <<>>]
JsonObject == [kind |-> "object", val |-> <<>>]
NoJson == [kind |-> "none", val |-> <<>>]

\* The outcome of fetch(`${apiUrl}/tasks`) followed by res.json().
\*   net     "reject": fetch rejects; "ok": a response arrived
\*   status  the HTTP status (res.ok is status in 200..299)
\*   json    "invalid": res.json() rejects; "value": it resolves to body
NoTasksResp == [net |-> "none", status |-> 0, json |-> "none", body |-> NoJson]

TasksResp(net, status, json, body) ==
    [net |-> net, status |-> status, json |-> json, body |-> body]

TasksResponses ==
    { TasksResp("reject", 0, "none", NoJson),
      TasksResp("ok", 404, "value", JsonObject),
      TasksResp("ok", 500, "invalid", NoJson),
      TasksResp("ok", 200, "invalid", NoJson),
      TasksResp("ok", 200, "value", JsonNull),
      TasksResp("ok", 200, "value", JsonObject) }
    \cup { TasksResp("ok", 200, "value", JsonArray(l)) : l \in TaskLists }

ResOk(r) == r.status \in 200..299

NotConfiguredMessage == <<"API URL is not configured.">>
ConnectMessage == <<"Could not connect to the backend API.">>
StatusMessage(status) == <<"Failed to fetch tasks. Status: ", ToString(status)>>

\* What a call of getTasks ends with: a returned value, or a rejection.
\* A returned FetchResult has tasks and error; a returned bare list has
\* tasks only (error is None).
Returned(tasks, error) == [threw |-> FALSE, tasks |-> tasks, error |-> error]
Rejected == [threw |-> TRUE, tasks |-> NoJson, error |-> None]
NoResult == [threw |-> FALSE, tasks |-> NoJson, error |-> None]

\* Variant: res.json() is returned without await, so that its rejection is
\* not caught by the try block.
getTasksFetchResult_noAwait(url, r) ==
    IF ~Truthy(url) THEN Returned(JsonArray(<<>>), Some(NotConfiguredMessage))
    ELSE IF r.net = "reject" THEN Returned(JsonArray(<<>>), Some(ConnectMessage))
    ELSE IF ~ResOk(r) THEN Returned(JsonArray(<<>>), Some(StatusMessage(r.status)))
    ELSE IF r.json = "invalid" THEN Rejected
    ELSE Returned(r.body, None)

\* getTasks of the revisions "table" and "responsive", for the configured
\* base URL url (None when unset) and the outcome r of the fetch.
getTasksFetchResult(url, r) ==
    IF ~Truthy(url) THEN Returned(JsonArray(<<>>), Some(NotConfiguredMessage))
    ELSE IF r.net = "reject" THEN Returned(JsonArray(<<>>), Some(ConnectMessage))
    ELSE IF ~ResOk(r) THEN Returned(JsonArray(<<>>), Some(StatusMessage(r.status)))
    ELSE IF r.json = "invalid" THEN Returned(JsonArray(<<>>), Some(ConnectMessage))
    ELSE Returned(r.body, None)

\* getTasks of the revision "bare": the errors thrown inside the try block
\* are caught and turned into []; res.json() is returned without await, so
\* its rejection is the rejection of getTasks.
getTasksBare(url, r) ==
    IF ~Truthy(url) THEN Returned(JsonArray(<<>>), None)
    ELSE IF r.net = "reject" THEN Returned(JsonArray(<<>>), None)
    ELSE IF ~ResOk(r) THEN Returned(JsonArray(<<>>), None)
    ELSE IF r.json = "invalid" THEN Rejected
    ELSE Returned(r.body, None)

getTasks(rev, url, r) ==
    IF rev \in FetchResultRevisions THEN getTasksFetchResult(url, r) ELSE getTasksBare(url, r)

formatDate(dateString) ==
    IF dateString = "" THEN <<"N/A">> ELSE <<"en-ZA", dateString>>

getStatusColor(status) ==
    CASE status = "completed" -> "bg-green-500/20 text-green-400"
      [] status = "in_progress" -> "bg-blue-500/20 text-blue-400"
      [] status = "failed" -> "bg-red-500/20 text-red-400"
      [] OTHER -> "bg-gray-500/20 text-gray-400"

\* One table row (or card) of the task log: the cells rendered for a task.
TaskRow(task) ==
    [id |-> task.id, type |-> task.type, status |-> task.status,
     color |-> getStatusColor(task.status),
     query |-> IF task.parameters.query # None /\ task.parameters.query[1] # ""
               THEN task.parameters.query[1] ELSE "N/A",
     created |-> formatDate(task.created_at)]

\* tasks.map(...) of the render.
TaskRows(list) == [i \in 1..Len(list) |-> TaskRow(list[i])]

\* What TasksPage renders: the error panel with its message, the "No tasks
\* found." paragraph, the table with its rows, the cards; threw when the
\* render (or the awaited getTasks) throws.
View(panel, noTasks, table, rows, cards) ==
    [threw |-> FALSE, panel |-> panel, noTasks |-> noTasks, table |-> table,
     rows |-> rows, cards |-> cards]
ViewThrew ==
    [threw |-> TRUE, panel |-> None, noTasks |-> FALSE, table |-> FALSE,
     rows |-> <<>>, cards |-> <<>>]
NoView ==
    [threw |-> FALSE, panel |-> None, noTasks |-> FALSE, table |-> FALSE,
     rows |-> <<>>, cards |-> <<>>]

\* Revision "table": the panel when error is truthy; otherwise the table
\* with tasks.map(...) rows, followed by the paragraph when the list is
\* empty.  tasks.map throws when tasks is not an array.
RenderTable(res) ==
    IF res.threw THEN ViewThrew
    ELSE IF Truthy(res.error) THEN View(res.error, FALSE, FALSE, <<>>, <<>>)
    ELSE IF res.tasks.kind # "array" THEN ViewThrew
    ELSE View(None, Len(res.tasks.val) = 0, TRUE, TaskRows(res.tasks.val), <<>>)

\* Revision "responsive": the panel when error is truthy; the paragraph
\* alone when tasks.length === 0; otherwise the table and the cards.
\* null.length throws, and an object has no map.
RenderResponsive(res) ==
    IF res.threw THEN ViewThrew
    ELSE IF Truthy(res.error) THEN View(res.error, FALSE, FALSE, <<>>, <<>>)
    ELSE IF res.tasks.kind # "array" THEN ViewThrew
    ELSE IF Len(res.tasks.val) = 0 THEN View(None, TRUE, FALSE, <<>>, <<>>)
    ELSE View(None, FALSE, TRUE, TaskRows(res.tasks.val), TaskRows(res.tasks.val))

\* Revision "bare": the table always, followed by the paragraph when the
\* list is empty; a rejection of getTasks is thrown by TasksPage.
RenderBare(res) ==
    IF res.threw THEN ViewThrew
    ELSE IF res.tasks.kind # "array" THEN ViewThrew
    ELSE View(None, Len(res.tasks.val) = 0, TRUE, TaskRows(res.tasks.val), <<>>)

Render(rev, res) ==
    CASE rev = "table" -> RenderTable(res)
      [] rev = "responsive" -> RenderResponsive(res)
      [] rev = "bare" -> RenderBare(res)

\* ------------------------------------------------------------- the state
VARIABLES
    messages,       \* useState<Message[]>
    isLoading,      \* useState(false)
    sessionId,      \* useState<string | null>
    userName,       \* useState<string | null>
    localStorage,   \* window.localStorage
    crashed,        \* the render of ChatPage threw: the page is gone
    chatReqs,       \* pending handleSendMessage calls, awaiting /chat
    archiveReqs,    \* bag of pending handleNewChat calls, awaiting /archive_chat
    ev,             \* the event that led to this state (history)
    revision,       \* the revision of the task log page that is deployed
    apiUrl,         \* process.env.NEXT_PUBLIC_API_URL of the task log
    tasksPending,   \* TasksPage awaits getTasks, which awaits the fetch
    tasksRes,       \* the outcome of the fetch of /tasks (history)
    tasksResult,    \* what getTasks ended with
    tasksView       \* what TasksPage rendered

chatVars == <<messages, isLoading, sessionId, userName, localStorage, crashed,
              chatReqs, archiveReqs, ev>>

tasksVars == <<revision, apiUrl, tasksPending, tasksRes, tasksResult, tasksView>>

vars == <<messages, isLoading, sessionId, userName, localStorage, crashed,
          chatReqs, archiveReqs, ev,
          revision, apiUrl, tasksPending, tasksRes, tasksResult, tasksView>>

\* The task log has not been requested.
TasksIdle ==
    /\ revision = "table"
    /\ apiUrl = Some(ApiUrl)
    /\ tasksPending = FALSE
    /\ tasksRes = NoTasksResp
    /\ tasksResult = NoResult
    /\ tasksView = NoView

Event(op, arg, resp) == [op |-> op, arg |-> arg, resp |-> resp]

\* The number of requests in flight.
Pending == Len(chatReqs) + BagCardinality(archiveReqs)

\* Removes element i of a sequence.
RemoveAt(s, i) == SubSeq(s, 1, i - 1) \o SubSeq(s, i + 1, Len(s))

\* Variant: the transcript is written only when it holds more than the
\* greeting.
PersistEffect_offByOne(ls, name, msgs, sid) ==
    IF Truthy(name)
    THEN LET ls1 == IF Len(msgs) > 1
                    THEN [ls EXCEPT !.history[name[1]] = Some(JSONstringify(msgs))]
                    ELSE ls
         IN  IF Truthy(sid) THEN [ls1 EXCEPT !.session[name[1]] = sid] ELSE ls1
    ELSE ls

\* The persistence effect, run after a render with the given state.
PersistEffect(ls, name, msgs, sid) ==
    IF Truthy(name)
    THEN LET ls1 == IF Len(msgs) > 0
                    THEN [ls EXCEPT !.history[name[1]] = Some(JSONstringify(msgs))]
                    ELSE ls
         IN  IF Truthy(sid) THEN [ls1 EXCEPT !.session[name[1]] = sid] ELSE ls1
    ELSE ls

\* The text the load effect reads under the chat-history key ('' if none).
LoadedText(ls) ==
    IF Truthy(ls.name) /\ ls.history[ls.name[1]] # None
    THEN ls.history[ls.name[1]][1] ELSE <<>>

\* The load effect of the first render, the render that follows it and the
\* persistence effect of that render.
Mount(ls) ==
    LET savedName == ls.name
        savedMessages == ls.history[savedName[1]]
        savedSessionId == ls.session[savedName[1]]
        parsed == JSONparse(savedMessages[1])
        sid == IF Truthy(savedSessionId) THEN savedSessionId ELSE None
    IN  IF ~Truthy(savedName)
        THEN [messages |-> <<>>, sessionId |-> None, userName |-> savedName,
              crashed |-> FALSE, localStorage |-> ls]
        ELSE IF ~Truthy(savedMessages)
        THEN LET msgs == <<WelcomeBackGreeting(savedName[1])>>
             IN  [messages |-> msgs, sessionId |-> sid, userName |-> savedName,
                  crashed |-> FALSE,
                  localStorage |-> PersistEffect(ls, savedName, msgs, sid)]
        ELSE IF parsed.kind = "throw"
        THEN LET msgs == <<DefaultGreeting>>
             IN  [messages |-> msgs, sessionId |-> None, userName |-> savedName,
                  crashed |-> FALSE,
                  localStorage |-> PersistEffect(ls, savedName, msgs, None)]
        ELSE IF parsed.kind = "array"
        THEN [messages |-> parsed.val, sessionId |-> sid, userName |-> savedName,
              crashed |-> FALSE,
              localStorage |-> PersistEffect(ls, savedName, parsed.val, sid)]
        \* messages is not an array: messages.map throws in the render
        ELSE [messages |-> <<>>, sessionId |-> sid, userName |-> savedName,
              crashed |-> TRUE, localStorage |-> ls]

Init ==
    /\ \E ls \in InitStorages :
         LET m == Mount(ls)
         IN  /\ messages = m.messages
             /\ sessionId = m.sessionId
             /\ userName = m.userName
             /\ crashed = m.crashed
             /\ localStorage = m.localStorage
             /\ ev = Event("load", LoadedText(ls), NoResp)
    /\ isLoading = FALSE
    /\ chatReqs = <<>>
    /\ archiveReqs = EmptyBag
    /\ TasksIdle

\* The page is loaded again: the requests of the old page are abandoned.
Reload ==
    /\ LET m == Mount(localStorage)
       IN  /\ messages' = m.messages
           /\ sessionId' = m.sessionId
           /\ userName' = m.userName
           /\ crashed' = m.crashed
           /\ localStorage' = m.localStorage
    /\ isLoading' = FALSE
    /\ chatReqs' = <<>>
    /\ archiveReqs' = EmptyBag
    /\ ev' = Event("reload", LoadedText(localStorage), NoResp)
    /\ UNCHANGED tasksVars

\* Variant: the transcript is left empty; no greeting is synthesized.
handleNameSubmit_noGreeting(name) ==
    LET ls1 == [localStorage EXCEPT !.name = Some(name),
                                    !.history[name] = None,
                                    !.session[name] = None]
    IN  /\ userName' = Some(name)
        /\ messages' = <<>>
        /\ sessionId' = None
        /\ localStorage' = PersistEffect(ls1, Some(name), <<>>, None)
        /\ UNCHANGED <<isLoading, crashed, chatReqs, archiveReqs>>

\* ChatPage.handleNameSubmit, followed by the persistence effect.
handleNameSubmit(name) ==
    LET msgs == <<NameGreeting(name)>>
        ls1 == [localStorage EXCEPT !.name = Some(name),
                                    !.history[name] = None,
                                    !.session[name] = None]
    IN  /\ userName' = Some(name)
        /\ messages' = msgs
        /\ sessionId' = None
        /\ localStorage' = PersistEffect(ls1, Some(name), msgs, None)
        /\ UNCHANGED <<isLoading, crashed, chatReqs, archiveReqs>>

\* NameEntryModal.handleSubmit: the prompt is rendered while !userName.
NameEntrySubmit(raw) ==
    /\ ~crashed
    /\ ~Truthy(userName)
    /\ ev' = Event("name", raw, NoResp)
    /\ IF Trim(raw) # <<>>
       THEN handleNameSubmit(Trim(raw))
       ELSE UNCHANGED <<messages, isLoading, sessionId, userName, localStorage,
                        crashed, chatReqs, archiveReqs>>
    /\ UNCHANGED tasksVars

\* Variant: the guard does not look at isLoading.
SubmitRejected_noLoading(input) == Trim(input) = <<>>

\* Variant: the guard compares the input without trimming it.
SubmitRejected_noTrim(input) == input = <<>> \/ isLoading

\* The guard of ChatInputForm.handleSubmit: TRUE when the submission is
\* dropped.
SubmitRejected(input) == Trim(input) = <<>> \/ isLoading

\* Variant: the user message is appended with the trimmed text.
handleSendMessage_trimmed(messageText) ==
    LET msgs == Append(messages, Message(Trim(messageText), "user"))
    IN  /\ isLoading' = TRUE
        /\ messages' = msgs
        /\ chatReqs' = Append(chatReqs,
                              [user_id |-> IF Truthy(userName) THEN userName[1] ELSE <<"User">>,
                               user_input |-> messageText])
        /\ localStorage' = PersistEffect(localStorage, userName, msgs, sessionId)
        /\ UNCHANGED <<sessionId, userName, crashed, archiveReqs>>

\* handleSendMessage up to its await: the user message is appended, the
\* request is issued, and the persistence effect runs after the render.
handleSendMessage(messageText) ==
    LET msgs == Append(messages, Message(messageText, "user"))
    IN  /\ isLoading' = TRUE
        /\ messages' = msgs
        /\ chatReqs' = Append(chatReqs,
                              [user_id |-> IF Truthy(userName) THEN userName[1] ELSE <<"User">>,
                               user_input |-> messageText])
        /\ localStorage' = PersistEffect(localStorage, userName, msgs, sessionId)
        /\ UNCHANGED <<sessionId, userName, crashed, archiveReqs>>

\* Variant: the form is rendered whether or not userName is set.
Submit_noGate(input) ==
    /\ ~crashed
    /\ ev' = Event("submit", input, NoResp)
    /\ IF SubmitRejected(input)
       THEN UNCHANGED <<messages, isLoading, sessionId, userName, localStorage,
                        crashed, chatReqs, archiveReqs>>
       ELSE /\ Len(messages) < MaxMessages
            /\ Pending < MaxPending
            /\ handleSendMessage(input)
    /\ UNCHANGED tasksVars

\* ChatInputForm.handleSubmit: the form is rendered while userName is set.
Submit(input) ==
    /\ ~crashed
    /\ Truthy(userName)
    /\ ev' = Event("submit", input, NoResp)
    /\ IF SubmitRejected(input)
       THEN UNCHANGED <<messages, isLoading, sessionId, userName, localStorage,
                        crashed, chatReqs, archiveReqs>>
       ELSE /\ Len(messages) < MaxMessages
            /\ Pending < MaxPending
            /\ handleSendMessage(input)
    /\ UNCHANGED tasksVars

\* Variant: a body that cannot be parsed is treated as an empty object.
ResponseBranch_lenientJson(r) ==
    IF r.net = "reject" \/ r.json = "null" THEN "throw"
    ELSE IF r.json = "invalid" THEN "nothing"
    ELSE IF Truthy(r.content) THEN "reply"
    ELSE "nothing"

\* What the try block of handleSendMessage does with the outcome r of the
\* fetch: "throw" (the catch block runs), "reply" (data.content is truthy)
\* or "nothing".
ResponseBranch(r) ==
    IF r.net = "reject" \/ r.json = "invalid" \/ r.json = "null" THEN "throw"
    ELSE IF Truthy(r.content) THEN "reply"
    ELSE "nothing"

\* Variant: setSessionId runs outside if (data.content).
SessionIdAfter_always(r) ==
    IF ResponseBranch(r) # "throw" /\ Truthy(r.session_id) THEN r.session_id ELSE sessionId

\* The session id after the try block: setSessionId runs only inside
\* if (data.content).
SessionIdAfter(r) ==
    IF ResponseBranch(r) = "reply" /\ Truthy(r.session_id) THEN r.session_id ELSE sessionId

\* Variant: setIsLoading(false) at the end of the try block, not in finally.
LoadingAfterSettle_inTry(b) == b = "throw"

\* isLoading after the finally block, whatever branch b the try block took.
LoadingAfterSettle(b) == FALSE

\* handleSendMessage from its await to its end, for the pending call i and
\* the outcome r, followed by the persistence effect.
ChatSettle(i, r) ==
    /\ ~crashed
    /\ i \in 1..Len(chatReqs)
    /\ LET b == ResponseBranch(r)
           msgs == IF b = "reply" THEN Append(messages, Message(r.content[1], "alina"))
                   ELSE IF b = "throw" THEN Append(messages, FallbackMessage)
                   ELSE messages
           sid == SessionIdAfter(r)
       IN  /\ messages' = msgs
           /\ sessionId' = sid
           /\ localStorage' = PersistEffect(localStorage, userName, msgs, sid)
    /\ isLoading' = LoadingAfterSettle(ResponseBranch(r))
    /\ chatReqs' = RemoveAt(chatReqs, i)
    /\ ev' = Event("chatSettle", chatReqs[i].user_input, r)
    /\ UNCHANGED <<userName, crashed, archiveReqs>>
    /\ UNCHANGED tasksVars

\* The end of handleNewChat, run with the userName of the render in which
\* New Chat was clicked, followed by the persistence effect.
ResetChat(name) ==
    LET ls1 == IF Truthy(name)
               THEN [localStorage EXCEPT !.history[name[1]] = None,
                                         !.session[name[1]] = None]
               ELSE localStorage
        msgs == <<NewChatGreeting(name)>>
    IN  /\ messages' = msgs
        /\ sessionId' = None
        /\ localStorage' = PersistEffect(ls1, userName, msgs, None)

\* Variant: a transcript that holds only the greeting is archived too.
ShouldArchive_anyMessage == Len(messages) > 0 /\ Truthy(sessionId)

\* TRUE when handleNewChat sends the transcript to /archive_chat.
ShouldArchive == Len(messages) > 1 /\ Truthy(sessionId)

\* A click on New Chat: handleNewChat up to its await, or to its end when
\* nothing is archived.
NewChatClick ==
    /\ ~crashed
    /\ Truthy(userName)
    /\ ev' = Event("newChat", <<>>, NoResp)
    /\ IF ShouldArchive
       THEN /\ Pending < MaxPending
            /\ archiveReqs' = archiveReqs (+) SetToBag({[session_id |-> sessionId[1],
                                                        transcript |-> messages,
                                                        userName |-> userName]})
            /\ UNCHANGED <<messages, isLoading, sessionId, userName, localStorage,
                           crashed, chatReqs>>
       ELSE /\ ResetChat(userName)
            /\ UNCHANGED <<isLoading, userName, crashed, chatReqs, archiveReqs>>
    /\ UNCHANGED tasksVars

\* Variant: the reset runs only when the archival succeeded.
ArchiveSettle_onlyOnSuccess(a, outcome) ==
    /\ ~crashed
    /\ IF outcome = "ok"
       THEN ResetChat(a.userName)
       ELSE UNCHANGED <<messages, sessionId, localStorage>>
    /\ archiveReqs' = archiveReqs (-) SetToBag({a})
    /\ ev' = Event("archiveSettle", <<outcome>>, NoResp)
    /\ UNCHANGED <<isLoading, userName, crashed, chatReqs>>
    /\ UNCHANGED tasksVars

\* handleNewChat from its await to its end, for the pending call a; the
\* outcome of the fetch is ignored.
ArchiveSettle(a, outcome) ==
    /\ ~crashed
    /\ ResetChat(a.userName)
    /\ archiveReqs' = archiveReqs (-) SetToBag({a})
    /\ ev' = Event("archiveSettle", <<outcome>>, NoResp)
    /\ UNCHANGED <<isLoading, userName, crashed, chatReqs>>
    /\ UNCHANGED tasksVars

\* -------------------------------------------------------- task log steps
\* The chat page is not mounted while the task log is shown.
ChatIdle ==
    /\ messages = <<>>
    /\ isLoading = FALSE
    /\ sessionId = None
    /\ userName = None
    /\ localStorage = Storage(None, None, None, None)
    /\ crashed = FALSE
    /\ chatReqs = <<>>
    /\ archiveReqs = EmptyBag
    /\ ev = Event("none", <<>>, NoResp)

TasksInit ==
    /\ ChatIdle
    /\ revision \in Revisions
    /\ apiUrl \in {None, Some(ApiUrl)}
    /\ tasksPending = FALSE
    /\ tasksRes = NoTasksResp
    /\ tasksResult = NoResult
    /\ tasksView = NoView

\* The task log is requested: TasksPage calls getTasks, which runs up to
\* its await of the fetch; with no base URL configured getTasks ends without
\* a fetch and the page is rendered at once.
TasksRequest ==
    /\ ~tasksPending
    /\ tasksRes' = NoTasksResp
    /\ IF Truthy(apiUrl)
       THEN /\ tasksPending' = TRUE
            /\ tasksResult' = NoResult
            /\ tasksView' = NoView
       ELSE LET res == getTasks(revision, apiUrl, NoTasksResp)
            IN  /\ tasksPending' = FALSE
                /\ tasksResult' = res
                /\ tasksView' = Render(revision, res)
    /\ UNCHANGED <<revision, apiUrl>>
    /\ UNCHANGED chatVars

\* The fetch of /tasks settles with the outcome r: getTasks runs to its end
\* and TasksPage renders what it returned.
TasksSettle(r) ==
    /\ tasksPending
    /\ LET res == getTasks(revision, apiUrl, r)
       IN  /\ tasksResult' = res
           /\ tasksView' = Render(revision, res)
    /\ tasksRes' = r
    /\ tasksPending' = FALSE
    /\ UNCHANGED <<revision, apiUrl>>
    /\ UNCHANGED chatVars

TasksNext ==
    \/ TasksRequest
    \/ \E r \in TasksResponses : TasksSettle(r)

TasksSpec == TasksInit /\ [][TasksNext]_vars


Next ==
    \/ Reload
    \/ \E raw \in RawNames : NameEntrySubmit(raw)
    \/ \E input \in Inputs : Submit(input)
    \/ \E i \in 1..MaxPending, r \in ChatResponses : ChatSettle(i, r)
    \/ NewChatClick
    \/ \E a \in BagToSet(archiveReqs), o \in ArchiveOutcomes : ArchiveSettle(a, o)

Spec == Init /\ [][Next]_vars

\* Storage of a first visit: nothing stored, or nothing but a name.
FreshStorages ==
    { Storage(None, None, None, None), Storage(Some(NameA), None, None, None) }

\* The page is loaded for the first time over such a storage.
FreshInit ==
    /\ \E ls \in FreshStorages :
         LET m == Mount(ls)
         IN  /\ messages = m.messages
             /\ sessionId = m.sessionId
             /\ userName = m.userName
             /\ crashed = m.crashed
             /\ localStorage = m.localStorage
             /\ ev = Event("load", LoadedText(ls), NoResp)
    /\ isLoading = FALSE
    /\ chatReqs = <<>>
    /\ archiveReqs = EmptyBag
    /\ TasksIdle

FreshSpec == FreshInit /\ [][Next]_vars

\* Every pending /chat request settles.
FairSpec == Spec /\ WF_vars(\E i \in 1..MaxPending, r \in ChatResponses : ChatSettle(i, r))

\* ------------------------------------------------------------ properties
IsNon2xx(r) == r.net = "ok" /\ ~(r.status \in 200..299)

TransportFailure(r) == r.net = "reject" \/ (r.net = "ok" /\ r.json = "invalid")

StoredHistory == localStorage.history[userName[1]]
StoredSession == localStorage.session[userName[1]]

\* C1: at most one /chat request is outstanding in every reachable state,
\* and a submission made while a request is pending appends no message and
\* issues no request.
C1_SingleChatRequest ==
    /\ [](Len(chatReqs) <= 1)
    /\ [][(ev'.op = "submit" /\ Len(chatReqs) > 0)
            => (messages' = messages /\ chatReqs' = chatReqs /\ isLoading' = isLoading)]_vars

\* C1 witness: a non-blank submission was dropped while another is pending
\* (the transcript, reset by a new chat, does not end with a user message).
C1_Witness ==
    /\ ev.op = "submit" /\ Trim(ev.arg) # <<>>
    /\ Len(chatReqs) = 1 /\ isLoading
    /\ messages = <<NewChatGreeting(userName)>>

\* C2: when the /chat request fails in transport (fetch rejects or the body
\* cannot be parsed) exactly one fallback message is appended to what the
\* transcript held, isLoading is cleared and no /chat request is issued.
C2_TransportFailure ==
    [][(ev'.op = "chatSettle" /\ TransportFailure(ev'.resp))
         => /\ messages' = Append(messages, FallbackMessage)
            /\ isLoading' = FALSE
            /\ Len(chatReqs') = Len(chatReqs) - 1
            /\ \A k \in 1..Len(chatReqs') : \E j \in 1..Len(chatReqs) : chatReqs'[k] = chatReqs[j]]_vars

\* C2 witness: the body could not be parsed; the user message is followed
\* by the fallback message and nothing is pending.
C2_Witness ==
    /\ ev.op = "chatSettle" /\ ev.resp.net = "ok" /\ ev.resp.json = "invalid"
    /\ Len(messages) >= 3
    /\ messages[Len(messages)] = FallbackMessage
    /\ messages[Len(messages) - 1] = Message(ev.arg, "user")
    /\ ~isLoading /\ chatReqs = <<>>

\* C3: an accepted submission of text t appends {text: t, sender: user} and
\* issues exactly one /chat request carrying the identity and t; a response
\* with reply text c appends exactly one agent message {text: c}, and a
\* session id s in that response becomes the in-memory and the stored
\* session id.
C3_SendAndReply ==
    [][/\ (ev'.op = "submit" /\ Trim(ev'.arg) # <<>> /\ ~isLoading)
          => /\ messages' = Append(messages, Message(ev'.arg, "user"))
             /\ chatReqs' = Append(chatReqs, [user_id |-> userName[1], user_input |-> ev'.arg])
       /\ (ev'.op = "chatSettle" /\ ev'.resp.net = "ok" /\ ev'.resp.json = "object"
             /\ Truthy(ev'.resp.content))
          => /\ messages' = Append(messages, Message(ev'.resp.content[1], "alina"))
             /\ Len(chatReqs') = Len(chatReqs) - 1
             /\ Truthy(ev'.resp.session_id)
                  => /\ sessionId' = ev'.resp.session_id
                     /\ localStorage'.session[userName[1]] = ev'.resp.session_id]_vars

\* C3 witness: the reply to " h" arrived with the session id s2, which is
\* now the in-memory and the stored session id.
C3_Witness ==
    /\ ev.op = "chatSettle" /\ ev.arg = <<" ", "h">>
    /\ Truthy(ev.resp.content) /\ ev.resp.session_id = Some(<<"s2">>)
    /\ Len(messages) >= 3
    /\ messages[Len(messages) - 1] = Message(<<" ", "h">>, "user")
    /\ messages[Len(messages)] = Message(ev.resp.content[1], "alina")
    /\ sessionId = Some(<<"s2">>) /\ StoredSession = Some(<<"s2">>)

\* C4 (as claimed): a non-2xx answer of /chat appends exactly one synthetic
\* agent message and clears isLoading, whatever its body.
C4_Non2xxSurfaced ==
    [][(ev'.op = "chatSettle" /\ IsNon2xx(ev'.resp))
         => /\ messages' = Append(messages, FallbackMessage)
            /\ isLoading' = FALSE]_vars

\* C5: a response whose body is a JSON object without a content field
\* changes nothing but isLoading: no message is appended, the transcript
\* (with the user message) stays, and the in-memory and stored session id
\* stay as they were even if the response carries a session id.
C5_NoContentNoOp ==
    [][(ev'.op = "chatSettle" /\ ev'.resp.net = "ok" /\ ev'.resp.json = "object"
          /\ ev'.resp.content = None)
         => /\ messages' = messages
            /\ isLoading' = FALSE
            /\ sessionId' = sessionId
            /\ localStorage' = localStorage]_vars

\* C5 witness: a response without content but with a session id left the
\* user message last and the session id absent.
C5_Witness ==
    /\ ev.op = "chatSettle" /\ ev.resp.json = "object"
    /\ ev.resp.content = None /\ Truthy(ev.resp.session_id)
    /\ messages[Len(messages)] = Message(ev.arg, "user")
    /\ sessionId = None /\ StoredSession = None
    /\ ~isLoading

\* C6: isLoading is TRUE exactly while a /chat request is outstanding, and
\* once set it is eventually cleared, given that pending requests settle.
C6_PendingIndicator ==
    /\ [](isLoading <=> Len(chatReqs) > 0)
    /\ (isLoading ~> ~isLoading)

\* C6 witness: a new chat was started while the request was pending, and the
\* failed request then cleared the indicator.
C6_Witness ==
    /\ ev.op = "chatSettle" /\ ev.resp.net = "reject"
    /\ ~isLoading
    /\ messages = <<NewChatGreeting(userName), FallbackMessage>>

\* C7: a submission of empty or whitespace-only input changes neither the
\* transcript nor the pending requests (nor anything else of the page).
C7_BlankInput ==
    [][(ev'.op = "submit" /\ Trim(ev'.arg) = <<>>)
         => UNCHANGED <<messages, chatReqs, isLoading, sessionId, localStorage>>]_vars

\* C7 witness: whitespace was submitted while nothing was pending.
C7_Witness ==
    /\ ev.op = "submit" /\ ev.arg = <<" ", "\n">>
    /\ ~isLoading /\ chatReqs = <<>>

\* C8: with an identity set (and the page rendered, so that the persistence
\* effect has run), chat-history-{identity} holds the serialization of the
\* transcript and, when a session id is set, session-id-{identity} holds it.
C8_StorageInSync ==
    (Truthy(userName) /\ ~crashed)
      => /\ StoredHistory = Some(JSONstringify(messages))
         /\ Truthy(sessionId) => StoredSession = sessionId

\* C8 witness: after a new chat that archived, storage holds the greeting.
C8_Witness ==
    /\ ev.op = "archiveSettle"
    /\ messages = <<NewChatGreeting(userName)>>
    /\ StoredHistory = Some(JSONstringify(messages))
    /\ StoredSession = None

\* C9: a load that finds a well-formed stored transcript restores exactly
\* that transcript and the persistence effect writes the same text back;
\* and a reload of a page restores the transcript the page held and leaves
\* the stored text as it was.
C9_RoundTrip ==
    /\ [](\A s \in StoredSamples :
            (ev.op \in {"load", "reload"} /\ Truthy(userName) /\ ev.arg = s.text)
              => /\ ~crashed
                 /\ messages = s.transcript
                 /\ StoredHistory = Some(s.text))
    /\ [][(ev'.op = "reload" /\ Truthy(userName) /\ ~crashed)
            => /\ ~crashed'
               /\ messages' = messages
               /\ localStorage'.history = localStorage.history]_vars

\* C9 witness: a page reloaded a transcript of three messages it had
\* written.
C9_Witness ==
    /\ ev.op = "reload" /\ ~crashed
    /\ Len(messages) = 3 /\ messages[2].sender = "user"
    /\ ev.arg = JSONstringify(messages)

\* C10 (as claimed): a load that finds a malformed stored transcript
\* (unparsable, or JSON that is not an array) yields exactly one greeting
\* and no exception.
C10_MalformedGreeting ==
    (ev.op \in {"load", "reload"} /\ Truthy(userName)
       /\ ev.arg \in UnparsableTexts \cup NonArrayTexts)
      => /\ ~crashed
         /\ Len(messages) = 1
         /\ messages[1].sender = "alina"

\* TRUE in a step that ends a new chat: handleNewChat ran to its end, either
\* at the click (nothing to archive) or when the archival request settled.
NewChatCompleted ==
    \/ ev'.op = "archiveSettle"
    \/ (ev'.op = "newChat" /\ archiveReqs' = archiveReqs)

\* C11: a new chat that ends (nothing archived, or the archival request
\* settled with success, a non-2xx answer or a network failure) leaves the
\* stored session id of the identity removed, the in-memory session id
\* absent and the transcript equal to one fresh greeting; the settling of
\* an archival request issues no request of any kind (no retry).
C11_ResetWhateverOutcome ==
    [][NewChatCompleted
         => /\ sessionId' = None
            /\ localStorage'.session[userName[1]] = None
            /\ messages' = <<NewChatGreeting(userName)>>
            /\ chatReqs' = chatReqs
            /\ BagCardinality(archiveReqs') <= BagCardinality(archiveReqs)
            /\ ev'.op = "archiveSettle"
                 => BagCardinality(archiveReqs') = BagCardinality(archiveReqs) - 1]_vars

\* C11 witness: the archival request failed in transport and the chat was
\* reset all the same.
C11_Witness ==
    /\ ev.op = "archiveSettle" /\ ev.arg = <<"reject">>
    /\ archiveReqs = EmptyBag
    /\ messages = <<NewChatGreeting(userName)>>
    /\ sessionId = None /\ StoredSession = None

\* C12: a click on New Chat issues an /archive_chat request if and only if
\* the transcript holds more than one message and a session id is set; the
\* request carries that session id and that transcript; and nothing but a
\* click on New Chat issues an /archive_chat request.
C12_ArchiveIff ==
    [][/\ ev'.op = "newChat"
            => /\ (archiveReqs' # archiveReqs) <=> (Len(messages) > 1 /\ Truthy(sessionId))
               /\ (archiveReqs' # archiveReqs)
                    => \E a \in BagToSet(archiveReqs') :
                         /\ archiveReqs' = archiveReqs (+) SetToBag({a})
                         /\ a.session_id = sessionId[1]
                         /\ a.transcript = messages
       /\ ev'.op # "newChat"
            => BagCardinality(archiveReqs') <= BagCardinality(archiveReqs)]_vars

\* C12 witness: the click found a transcript of three messages and the
\* session id s1, and the pending request carries both.
C12_Witness ==
    /\ ev.op = "newChat"
    /\ Len(messages) = 3 /\ sessionId = Some(<<"s1">>)
    /\ archiveReqs = SetToBag({[session_id |-> <<"s1">>, transcript |-> messages,
                                userName |-> userName]})

\* C13: while no display name is set no request is pending and the
\* transcript is empty, and a step that leaves the name unset changes none
\* of them; every pending /chat request carries the display name as
\* user_id, and an accepted submission issues the request with the
\* submitted text as user_input.
C13_NameGate ==
    /\ [](~Truthy(userName)
            => (chatReqs = <<>> /\ archiveReqs = EmptyBag /\ messages = <<>>))
    /\ [](\A i \in 1..Len(chatReqs) :
            Truthy(userName) /\ chatReqs[i].user_id = userName[1])
    /\ [][(ev'.op = "submit" /\ Len(chatReqs') > Len(chatReqs))
            => chatReqs'[Len(chatReqs')] = [user_id |-> userName'[1], user_input |-> ev'.arg]]_vars

\* C13 witness: the name prompt was submitted with blanks only; the page
\* still has no name, no transcript and no request.
C13_Witness ==
    /\ ev.op = "name" /\ ev.arg = <<" ">>
    /\ ~Truthy(userName) /\ ~crashed
    /\ messages = <<>> /\ chatReqs = <<>> /\ archiveReqs = EmptyBag

TasksRendered == ~tasksPending /\ tasksView # NoView

\* TRUE when the latest fetch of the task list failed: no base URL, a
\* network failure, a non-success status or an unparsable body.
TasksFailed ==
    \/ ~Truthy(apiUrl)
    \/ tasksRes.net = "reject"
    \/ ~ResOk(tasksRes)
    \/ tasksRes.json = "invalid"

\* C15: in the revisions whose getTasks returns a FetchResult, getTasks
\* never ends with a rejection; without a base URL no request is issued;
\* every failure returns a non-null error message and the empty list, the
\* message for a non-success status containing the status; a successful
\* fetch returns error = null and the value fetched.
C15_GetTasksNeverThrows ==
    revision \in FetchResultRevisions
      => /\ ~Truthy(apiUrl) => (~tasksPending /\ tasksRes = NoTasksResp)
         /\ TasksRendered
              => /\ ~tasksResult.threw
                 /\ TasksFailed
                      => /\ Truthy(tasksResult.error)
                         /\ tasksResult.tasks = JsonArray(<<>>)
                 /\ (Truthy(apiUrl) /\ tasksRes.net = "ok" /\ ~ResOk(tasksRes))
                      => \E i \in 1..Len(tasksResult.error[1]) :
                           tasksResult.error[1][i] = ToString(tasksRes.status)
                 /\ ~TasksFailed
                      => /\ tasksResult.error = None
                         /\ tasksResult.tasks = tasksRes.body

\* C15 witness: /tasks answered 500 with a body that is not JSON, and
\* getTasks returned the empty list with the message naming the status.
C15_Witness ==
    /\ revision \in FetchResultRevisions /\ TasksRendered
    /\ tasksRes.status = 500 /\ tasksRes.json = "invalid"
    /\ tasksResult = Returned(JsonArray(<<>>), Some(<<"Failed to fetch tasks. Status: ", "500">>))

\* C16 (as claimed): for a failed fetch or a fetched list, the page shows
\* exactly one of three states: the error panel with the message if and only
\* if the fetch failed; the "No tasks found." paragraph, and no table, if
\* and only if the fetch succeeded with the empty list; otherwise the table
\* with one row per task, in the order of the list.
C16_ThreeStates ==
    (TasksRendered /\ revision \in FetchResultRevisions
       /\ (TasksFailed \/ tasksRes.body.kind = "array"))
      => LET list == IF TasksFailed THEN <<>> ELSE tasksRes.body.val
         IN  /\ ~tasksView.threw
             /\ Truthy(tasksView.panel) <=> TasksFailed
             /\ TasksFailed
                  => /\ tasksView.panel = tasksResult.error
                     /\ ~tasksView.noTasks /\ ~tasksView.table
             /\ tasksView.noTasks <=> (~TasksFailed /\ Len(list) = 0)
             /\ tasksView.noTasks => ~tasksView.table
             /\ (~TasksFailed /\ Len(list) > 0)
                  => /\ tasksView.table
                     /\ Len(tasksView.rows) = Len(list)
                     /\ \A i \in 1..Len(list) : tasksView.rows[i] = TaskRow(list[i])

\* TRUE when the transcript holds the user message with the given text.
UserMessageIn(msgs, text) == \E k \in 1..Len(msgs) : msgs[k] = Message(text, "user")

\* C17 (as claimed): a new chat that ends leaves the in-memory and the
\* stored session id absent, and from then on they become present only by
\* the reply to a message of the current transcript, that is, a message
\* submitted after the reset.
C17_SessionAbsentAfterReset ==
    [][/\ NewChatCompleted
            => (sessionId' = None /\ localStorage'.session[userName[1]] = None)
       /\ (/\ Truthy(userName)
           /\ sessionId = None /\ localStorage.session[userName[1]] = None
           /\ (sessionId' # None \/ localStorage'.session[userName[1]] # None))
            => (ev'.op = "chatSettle" /\ UserMessageIn(messages, ev'.arg))]_vars

\* C18 (as claimed): when the archival request of a new chat settles, every
\* message of the transcript that is cleared, the greeting aside, is a
\* message of the transcript that request forwarded, at the same place.
C18_ClearsWhatItForwarded ==
    [][ev'.op = "archiveSettle"
         => \A a \in BagToSet(archiveReqs (-) archiveReqs') :
              \A k \in 2..Len(messages) :
                k <= Len(a.transcript) /\ a.transcript[k] = messages[k]]_vars

\* C19 (as claimed): a click on New Chat issues an /archive_chat request
\* only if no request for the same session id has been issued and is still
\* pending.
C19_ArchiveOneShot ==
    [][(ev'.op = "newChat" /\ archiveReqs' # archiveReqs)
         => \A a \in BagToSet(archiveReqs) : a.session_id # sessionId[1]]_vars

\* C20: a session that starts fresh (a name is entered, a new chat ends, or
\* a load finds a stored name and no stored transcript) has a transcript of
\* exactly one message, from the agent; and in every state reached from the
\* storage of a first visit in which a name is set, the page is rendered,
\* the transcript is non-empty and its first message is from the agent.
C20_GreetingFirst ==
    /\ []((ev.op = "load" /\ Truthy(userName) /\ ev.arg = <<>>)
            => (Len(messages) = 1 /\ messages[1].sender = "alina"))
    /\ [][(\/ (ev'.op = "name" /\ Trim(ev'.arg) # <<>>)
           \/ NewChatCompleted
           \/ (ev'.op = "reload" /\ Truthy(userName') /\ ev'.arg = <<>>))
            => (Len(messages') = 1 /\ messages'[1].sender = "alina")]_vars
    /\ [](Truthy(userName)
            => (~crashed /\ Len(messages) >= 1 /\ messages[1].sender = "alina"))

\* C20 witness: starting from empty storage the name A was entered, a
\* message was answered, and the page was loaded again: the transcript
\* still starts with the greeting of the name entry.
C20_Witness ==
    /\ ev.op = "reload"
    /\ userName = Some(NameA)
    /\ Len(messages) = 3
    /\ messages[1] = NameGreeting(NameA)
    /\ messages[2].sender = "user"

\* C21 (as claimed): a reply or a fallback message is appended only to a
\* transcript that holds the user message of the request that produced it,
\* so that every agent message after the greeting is preceded by a user
\* message.
C21_ReplyAfterItsMessage ==
    /\ [][(ev'.op = "chatSettle" /\ messages' # messages)
            => UserMessageIn(messages, ev'.arg)]_vars
    /\ []((Truthy(userName) /\ ~crashed)
            => \A k \in 2..Len(messages) :
                 messages[k].sender = "alina"
                   => \E j \in 1..(k - 1) : messages[j].sender = "user")

\* C22 (as claimed): with a name set, the page rendered, no request
\* outstanding and no session id in memory, no session id is stored under
\* the key of that name.
C22_NoOrphanSession ==
    (Truthy(userName) /\ ~crashed /\ Pending = 0 /\ sessionId = None)
      => StoredSession = None

\* C23 (as claimed): in the revision whose getTasks returns a bare list,
\* every failed fetch ends with getTasks returning the empty list, and the
\* page renders what it renders for a fetched empty list: the "No tasks
\* found." paragraph, and nothing thrown.
C23_BareFailuresAreEmpty ==
    (TasksRendered /\ revision = "bare" /\ TasksFailed)
      => /\ ~tasksResult.threw
         /\ tasksResult.tasks = JsonArray(<<>>)
         /\ ~tasksView.threw
         /\ tasksView.noTasks
         /\ tasksView = Render("bare", getTasks("bare", Some(ApiUrl),
                                                TasksResp("ok", 200, "value", JsonArray(<<>>))))

====
